---- MODULE Spec2Model ----
(***************************************************************************)
(* Model of pylok.py: advisory lock files with YAML metadata.              *)
(*                                                                         *)
(* A Python string is a sequence of tokens; a token is a run of characters *)
(* that contains no path separator, and the tokens used here are chosen so *)
(* that distinct token sequences spell distinct strings.  "d/a.lock" is    *)
(* <<"d", "/", "a", ".lock">>.  None is the reserved value None below.     *)
(*                                                                         *)
(* The filesystem is a function from resolved paths (sequences of path     *)
(* components, relative to the working directory) to entries.              *)
(***************************************************************************)
EXTENDS Integers, Sequences, FiniteSets, TLC

VARIABLES
    fs,                  \* the filesystem below the working directory
    lock_file_directory, \* the directory string this process passes to lock()
    default_lock_data,   \* the dict object bound to lock()'s default lock_data={}
    calls,               \* the calls of lock() this process has made, in order
    procs,               \* concurrent processes: where each is inside its call
    last_writer          \* the process whose write the lock file of a holds

vars == <<fs, lock_file_directory, default_lock_data, calls, procs, last_writer>>

----------------------------------------------------------------------------
(* Values *)

None == <<"<None>">>
EmptyStr == <<>>

\* LockAction enum values
UNLOCK == <<"unlock">>
LOCK == <<"lock">>
STATUS == <<"status">>

\* exception classes; NoError is normal completion
NoError == "none"
LockFileNotPresentError == "LockFileNotPresentError"
LockFilePresentError == "LockFilePresentError"
LockFileNotPresentForRemoval == "LockFileNotPresentForRemoval"
LockActionError == "LockActionError"
OSError == "OSError"

EmptyDict == [k \in {} |-> None]

\* an update in which the entries already present win
Update_keeping(d, u) ==
    [k \in (DOMAIN d) \cup (DOMAIN u) |-> IF k \in DOMAIN d THEN d[k] ELSE u[k]]

\* dict.update
Update(d, u) ==
    [k \in (DOMAIN d) \cup (DOMAIN u) |-> IF k \in DOMAIN u THEN u[k] ELSE d[k]]

----------------------------------------------------------------------------
(* The inputs the caller draws from *)

Directories == { <<"d", "/">>, <<"d">> }
Objects == { <<"a">>, <<"b">> }
Actions == { STATUS, LOCK, UNLOCK, <<"wipe">> }

Maintenance == [k \in {"msg", "expire"} |->
                  IF k = "msg" THEN <<"maintenance">> ELSE <<"2099-01-01">>]
\* a dict the caller reuses after a status call on an unlocked resource, as
\* the docstring does with data_to_lock: it carries the keys lock() computes
Stale == [k \in {"msg", "lock_action", "lock_file_location", "lock_file_status"} |->
                  IF k = "msg" THEN <<"null">>
                  ELSE IF k = "lock_action" THEN STATUS
                  ELSE IF k = "lock_file_location" THEN None
                  ELSE <<"unlocked">>]
Metadatas == { Maintenance, Stale }

\* the number of calls of lock() one process makes
MaxCalls == 2

\* the processes that may call lock() at the same time
NumProcs == 2
ProcNames == <<"p1", "p2", "p3">>
Procs == { ProcNames[i] : i \in 1..NumProcs }

\* a process that is not inside a call of lock()
Idle ==
    [pc |-> "idle", lock_action |-> STATUS,
     ensure_unlock_state |-> FALSE, ensure_lock_state |-> FALSE,
     entry |-> EmptyDict, lock_data |-> EmptyDict,
     raised |-> NoError, site |-> "-",
     at_check |-> "-", at_verify |-> "-", disturbed |-> FALSE]
NoProcess == "none"

----------------------------------------------------------------------------
(* Filesystem *)

DirEntry == [kind |-> "dir", data |-> <<>>, readable |-> TRUE]
FileEntry(text) == [kind |-> "file", data |-> text, readable |-> TRUE]
EmptyFs == [p \in {} |-> DirEntry]

RECURSIVE SplitPath(_, _, _)
SplitPath(s, cur, acc) ==
    IF s = <<>>
    THEN IF cur = <<>> THEN acc ELSE Append(acc, cur)
    ELSE IF Head(s) = "/"
         THEN SplitPath(Tail(s), <<>>, IF cur = <<>> THEN acc ELSE Append(acc, cur))
         ELSE SplitPath(Tail(s), Append(cur, Head(s)), acc)

\* the components of a path string
Resolve(path) == SplitPath(path, <<>>, <<>>)

Parent(p) == SubSeq(p, 1, Len(p) - 1)
IsDir(fsys, p) == p = <<>> \/ (p \in DOMAIN fsys /\ fsys[p].kind = "dir")
IsFile(fsys, p) == p \in DOMAIN fsys /\ fsys[p].kind = "file"
Put(fsys, p, e) == [q \in (DOMAIN fsys) \cup {p} |-> IF q = p THEN e ELSE fsys[q]]
Del(fsys, p) == [q \in (DOMAIN fsys) \ {p} |-> fsys[q]]

\* the regular files of a filesystem, with their contents
Files(fsys) == [p \in {q \in DOMAIN fsys : fsys[q].kind = "file"} |-> fsys[p]]

\* os.makedirs(name)
makedirs(fsys, name) ==
    LET c == Resolve(name)
        n == Len(c)
        pre == { SubSeq(c, 1, i) : i \in 1..n }
    IN  IF n = 0 THEN [fs |-> fsys, errno |-> "ENOENT"]
        ELSE IF \E i \in 1..(n - 1) : IsFile(fsys, SubSeq(c, 1, i))
             THEN [fs |-> fsys, errno |-> "ENOTDIR"]
        ELSE IF c \in DOMAIN fsys THEN [fs |-> fsys, errno |-> "EEXIST"]
        ELSE [fs |-> [q \in (DOMAIN fsys) \cup pre |->
                         IF q \in DOMAIN fsys THEN fsys[q] ELSE DirEntry],
              errno |-> "OK"]

\* open(path, 'r') succeeds
CanOpenRead(fsys, path) ==
    LET p == Resolve(path)
    IN  /\ p # <<>>
        /\ IsDir(fsys, Parent(p))
        /\ IsFile(fsys, p)
        /\ fsys[p].readable

\* open(path, 'a') and open(path, 'w') succeed
CanOpenWrite(fsys, path) ==
    LET p == Resolve(path)
    IN  /\ p # <<>>
        /\ IsDir(fsys, Parent(p))
        /\ ~ IsDir(fsys, p)

----------------------------------------------------------------------------
(* yaml *)

\* the keys a dict can carry, in the sorted order yaml.dump emits them
KeyOrder == <<"expire", "lock_action", "lock_file_location", "lock_file_status", "msg">>
Keys == { KeyOrder[i] : i \in 1..Len(KeyOrder) }

\* strings whose plain form would load as something other than a string
\* (null, a timestamp, the empty scalar); yaml.dump writes them quoted
ImplicitlyTyped == { <<"null">>, <<"2099-01-01">>, EmptyStr }

Quote == "'"

\* the text of one scalar
DumpScalar(v) ==
    IF v = None THEN <<"null">>
    ELSE IF v \in ImplicitlyTyped THEN <<Quote>> \o v \o <<Quote>>
    ELSE v

LoadScalar(t) ==
    IF t = <<"null">> THEN None
    ELSE IF Len(t) >= 2 /\ Head(t) = Quote /\ t[Len(t)] = Quote
         THEN SubSeq(t, 2, Len(t) - 1)
    ELSE t

RECURSIVE DumpFrom(_, _)
DumpFrom(d, i) ==
    IF i > Len(KeyOrder) THEN <<>>
    ELSE IF KeyOrder[i] \in DOMAIN d
         THEN <<[key |-> KeyOrder[i], text |-> DumpScalar(d[KeyOrder[i]])]>>
                  \o DumpFrom(d, i + 1)
         ELSE DumpFrom(d, i + 1)

\* yaml.dump(d): one "key: scalar" line per entry, keys sorted
YamlDump(d) ==
    IF DOMAIN d = {} THEN <<[key |-> "{}", text |-> <<>>]>> ELSE DumpFrom(d, 1)

\* yaml.safe_load(text) of a mapping document
YamlLoad(lines) ==
    LET idx == { i \in 1..Len(lines) : lines[i].key # "{}" }
    IN  [k \in { lines[i].key : i \in idx } |->
            LoadScalar(lines[CHOOSE i \in idx : lines[i].key = k].text)]

----------------------------------------------------------------------------
(* Lock Store *)

\* an existence check that asks whether the path exists (os.path.isfile)
is_locked_exists(fsys, lock_file) == IsFile(fsys, Resolve(lock_file))

\* def is_locked(lock_file): open(lock_file, 'r') succeeded; the bare except
\* turns every failure of open into False
is_locked(fsys, lock_file) == CanOpenRead(fsys, lock_file)

\* def create_lock_dir(lock_file_directory): EEXIST is swallowed
create_lock_dir(fsys, directory) ==
    LET m == makedirs(fsys, directory)
    IN  [fs |-> m.fs,
         raised |-> IF m.errno \in {"OK", "EEXIST"} THEN NoError ELSE OSError]

\* a create_lock_file that refuses an existing path (open(lock_file, 'x'))
create_lock_file_exclusive(fsys, lock_file) ==
    LET p == Resolve(lock_file)
    IN  IF ~ CanOpenWrite(fsys, lock_file) \/ IsFile(fsys, p)
        THEN [fs |-> fsys, raised |-> OSError]
        ELSE [fs |-> Put(fsys, p, FileEntry(<<>>)), raised |-> NoError]

\* def create_lock_file(lock_file): open(lock_file, 'a').close()
create_lock_file(fsys, lock_file) ==
    LET p == Resolve(lock_file)
    IN  IF ~ CanOpenWrite(fsys, lock_file) THEN [fs |-> fsys, raised |-> OSError]
        ELSE IF IsFile(fsys, p) THEN [fs |-> fsys, raised |-> NoError]
        ELSE [fs |-> Put(fsys, p, FileEntry(<<>>)), raised |-> NoError]

\* def write_to_lock_file(location, lock_object, lock_data)
write_to_lock_file(fsys, location, lock_object, lock_data) ==
    LET lock_file == location \o lock_object \o <<".lock">>
        p == Resolve(lock_file)
    IN  IF ~ CanOpenWrite(fsys, lock_file) THEN [fs |-> fsys, raised |-> OSError]
        ELSE [fs |-> Put(fsys, p,
                         [kind |-> "file", data |-> YamlDump(lock_data),
                          readable |-> IF IsFile(fsys, p) THEN fsys[p].readable ELSE TRUE]),
              raised |-> NoError]

\* remove_lock_file that reports success without deleting
remove_lock_file_keeps(fsys, lock_file) ==
    [fs |-> fsys,
     raised |-> IF IsFile(fsys, Resolve(lock_file)) THEN NoError ELSE OSError]

\* remove_lock_file that treats a missing file as removed
remove_lock_file_quiet(fsys, lock_file) ==
    LET p == Resolve(lock_file)
    IN  IF IsFile(fsys, p) THEN [fs |-> Del(fsys, p), raised |-> NoError]
        ELSE [fs |-> fsys, raised |-> NoError]

\* def remove_lock_file(lock_file): os.remove(lock_file)
remove_lock_file(fsys, lock_file) ==
    LET p == Resolve(lock_file)
    IN  IF p # <<>> /\ IsDir(fsys, Parent(p)) /\ IsFile(fsys, p)
        THEN [fs |-> Del(fsys, p), raised |-> NoError]
        ELSE [fs |-> fsys, raised |-> OSError]

\* ensure_lock with its test inverted
ensure_lock_inverted(fsys, lock_file) ==
    IF is_locked(fsys, lock_file) THEN LockFileNotPresentError ELSE NoError

\* def ensure_lock(lock_file): the exception it raises, or NoError
ensure_lock(fsys, lock_file) ==
    IF ~ is_locked(fsys, lock_file) THEN LockFileNotPresentError ELSE NoError

\* ensure_unlock that never raises
ensure_unlock_never(fsys, lock_file) == NoError

\* def ensure_unlock(lock_file): the exception it raises, or NoError
ensure_unlock(fsys, lock_file) ==
    IF is_locked(fsys, lock_file) THEN LockFilePresentError ELSE NoError

----------------------------------------------------------------------------
(* Lock Controller *)

\* where a call ended: normal return, or the raise statement that ended it
Returned == "returned"
NotLocked == "NotLocked"                               \* ensure_lock, line 52
UnlockFailed == "UnlockFailed"                         \* line 190
UnlockVerificationFailed == "UnlockVerificationFailed" \* line 200
AlreadyLocked == "AlreadyLocked"                       \* ensure_unlock, line 59
LockCreationFailed == "LockCreationFailed"             \* line 233
InvalidAction == "InvalidAction"                       \* line 236
Propagated == "Propagated"                             \* an OSError passing through

FailureKinds == { NotLocked, UnlockFailed, UnlockVerificationFailed, AlreadyLocked,
                  LockCreationFailed, InvalidAction }

\* the outcome of (a part of) a call: the filesystem and the lock_data dict
\* it leaves, the exception raised, the place that raised it, and whether
\* the removal step was reached and how it ended ("none", "ok", "failed")
Outcome(fsys, data, raised, site, removal) ==
    [fs |-> fsys, lock_data |-> data, raised |-> raised, site |-> site,
     removal |-> removal]

return_info(location, status) ==
    [k \in {"lock_file_location", "lock_file_status"} |->
        IF k = "lock_file_location" THEN location ELSE status]

\* a status branch whose existence check opens the lock file for appending
lock_status_touching(fsys, lock_file, lock_data, ensure_unlock_state, ensure_lock_state) ==
    LET touched == create_lock_file(fsys, lock_file).fs
        info == IF is_locked(touched, lock_file) = FALSE
                THEN return_info(None, <<"unlocked">>)
                ELSE return_info(lock_file, <<"locked">>)
    IN  Outcome(touched, Update(lock_data, info), NoError, Returned, "none")

\* a status branch that honours the two precondition flags
lock_status_checked(fsys, lock_file, lock_data, ensure_unlock_state, ensure_lock_state) ==
    LET file_is_locked == is_locked(fsys, lock_file)
        info == IF file_is_locked = FALSE
                THEN return_info(None, <<"unlocked">>)
                ELSE return_info(lock_file, <<"locked">>)
    IN  IF ensure_unlock_state /\ file_is_locked
        THEN Outcome(fsys, lock_data, LockFilePresentError, AlreadyLocked, "none")
        ELSE IF ensure_lock_state /\ ~ file_is_locked
        THEN Outcome(fsys, lock_data, LockFileNotPresentError, NotLocked, "none")
        ELSE Outcome(fsys, Update(lock_data, info), NoError, Returned, "none")

\* the status branch of lock(), lines 166-181
lock_status(fsys, lock_file, lock_data, ensure_unlock_state, ensure_lock_state) ==
    LET file_is_locked == is_locked(fsys, lock_file)
        info == IF file_is_locked = FALSE
                THEN return_info(None, <<"unlocked">>)
                ELSE return_info(lock_file, <<"locked">>)
    IN  Outcome(fsys, Update(lock_data, info), NoError, Returned, "none")

\* the unlock branch of lock(), lines 183-207
lock_unlock(fsys, lock_file, lock_data, ensure_lock_state) ==
    LET pre == IF ensure_lock_state THEN ensure_lock(fsys, lock_file) ELSE NoError
        rm == remove_lock_file(fsys, lock_file)
    IN  IF pre # NoError THEN Outcome(fsys, lock_data, pre, NotLocked, "none")
        ELSE IF rm.raised # NoError
             THEN Outcome(rm.fs, lock_data, LockFileNotPresentError, UnlockFailed, "failed")
        ELSE IF is_locked(rm.fs, lock_file) = FALSE
             THEN Outcome(rm.fs, Update(lock_data, return_info(None, <<"unlocked">>)),
                          NoError, Returned, "ok")
        ELSE Outcome(rm.fs, lock_data, LockFileNotPresentForRemoval,
                     UnlockVerificationFailed, "ok")

\* the lock branch of lock(), lines 209-233
lock_lock(fsys, lock_file, directory, lock_object, lock_data, ensure_unlock_state) ==
    LET pre == IF ensure_unlock_state THEN ensure_unlock(fsys, lock_file) ELSE NoError
        cr == create_lock_file(fsys, lock_file)
        merged == Update(lock_data, return_info(lock_file, <<"locked">>))
        wr == write_to_lock_file(cr.fs, directory, lock_object, merged)
    IN  IF pre # NoError THEN Outcome(fsys, lock_data, pre, AlreadyLocked, "none")
        ELSE IF cr.raised # NoError
             THEN Outcome(cr.fs, lock_data, cr.raised, Propagated, "none")
        ELSE IF wr.raised # NoError
             THEN Outcome(wr.fs, merged, wr.raised, Propagated, "none")
        ELSE IF is_locked(wr.fs, lock_file) = TRUE
             THEN Outcome(wr.fs, merged, NoError, Returned, "none")
        ELSE Outcome(wr.fs, merged, LockFileNotPresentError, LockCreationFailed, "none")

\* a dispatch without the final else: an unknown action falls through
lock_other_falls_through(fsys, lock_data) ==
    Outcome(fsys, lock_data, NoError, Returned, "none")

\* the final else of lock(), lines 235-236
lock_other(fsys, lock_data) ==
    Outcome(fsys, lock_data, LockActionError, InvalidAction, "none")

\* def lock(lock_file_directory, lock_object, lock_data, lock_action,
\*          ensure_unlock_state, ensure_lock_state)
lock(fsys, directory, lock_object, lock_data, lock_action, ensure_unlock_state, ensure_lock_state) ==
    LET lock_file_name == lock_object \o <<".lock">>
        lock_file == directory \o lock_file_name
        mk == create_lock_dir(fsys, directory)
        br == IF lock_action = STATUS
              THEN lock_status(mk.fs, lock_file, lock_data,
                               ensure_unlock_state, ensure_lock_state)
              ELSE IF lock_action = UNLOCK
              THEN lock_unlock(mk.fs, lock_file, lock_data, ensure_lock_state)
              ELSE IF lock_action = LOCK
              THEN lock_lock(mk.fs, lock_file, directory, lock_object, lock_data,
                             ensure_unlock_state)
              ELSE lock_other(mk.fs, lock_data)
    IN  IF mk.raised # NoError
        THEN Outcome(mk.fs, lock_data, mk.raised, Propagated, "none")
        ELSE IF br.raised # NoError THEN br
        ELSE [br EXCEPT !.lock_data =
                 Update(br.lock_data, [k \in {"lock_action"} |-> lock_action])]

\* the lock path of a call, as lines 160-161 compute it
LockFile(directory, lock_object) == directory \o (lock_object \o <<".lock">>)

----------------------------------------------------------------------------
(* The caller: one process making a sequence of calls of lock().  The      *)
(* filesystem outlives the process: it starts as earlier invocations of    *)
(* the tool left it.  The default dict is created when the module loads.   *)

\* the objects earlier invocations may have left locked
EarlierLocks == { {}, {<<"b">>} }

RECURSIVE LockedEach(_, _, _)
\* the filesystem after earlier invocations have locked the objects in S
LockedEach(fsys, directory, S) ==
    IF S = {} THEN fsys
    ELSE LET o == CHOOSE x \in S : TRUE
         IN  LockedEach(lock(fsys, directory, o, Maintenance, LOCK, FALSE, FALSE).fs,
                        directory, S \ {o})

Init ==
    /\ lock_file_directory \in Directories
    /\ fs \in { LockedEach(EmptyFs, lock_file_directory, S) : S \in EarlierLocks }
    /\ default_lock_data = EmptyDict
    /\ calls = <<>>
    /\ procs = [p \in Procs |-> Idle]
    /\ last_writer = NoProcess

\* one call lock(lock_file_directory, lock_object, [lock_data,] lock_action, ...);
\* with lock_data omitted the parameter is bound to the default dict object,
\* otherwise to a dict the caller has just built
Call(lock_object, lock_action, ensure_unlock_state, ensure_lock_state, omitted, metadata) ==
    LET entry == IF omitted THEN default_lock_data ELSE metadata
        r == lock(fs, lock_file_directory, lock_object, entry, lock_action,
                  ensure_unlock_state, ensure_lock_state)
    IN  /\ Len(calls) < MaxCalls
        /\ fs' = r.fs
        /\ default_lock_data' = IF omitted THEN r.lock_data ELSE default_lock_data
        /\ calls' = Append(calls,
                       [lock_object |-> lock_object, lock_action |-> lock_action,
                        ensure_unlock_state |-> ensure_unlock_state,
                        ensure_lock_state |-> ensure_lock_state,
                        omitted |-> omitted, entry |-> entry,
                        fs0 |-> fs,
                        raised |-> r.raised, site |-> r.site, removal |-> r.removal,
                        lock_data |-> r.lock_data])
        /\ UNCHANGED <<lock_file_directory, procs, last_writer>>

\* the lock_data argument: omitted, or a dict literal
WithData(lock_object, lock_action, eu, el) ==
    \/ Call(lock_object, lock_action, eu, el, TRUE, EmptyDict)
    \/ \E metadata \in Metadatas : Call(lock_object, lock_action, eu, el, FALSE, metadata)

\* the flags a branch of lock() never reads are left at their default; the
\* status branch reads neither, and is called with both left out or both set
Status == \E o \in Objects, flag \in BOOLEAN : WithData(o, STATUS, flag, flag)
Lock == \E o \in Objects, eu \in BOOLEAN : WithData(o, LOCK, eu, FALSE)
Unlock == \E o \in Objects, el \in BOOLEAN : WithData(o, UNLOCK, FALSE, el)
Other == \E o \in Objects, a \in Actions \ {STATUS, LOCK, UNLOCK} : WithData(o, a, FALSE, FALSE)

Next == Status \/ Lock \/ Unlock \/ Other

Spec == Init /\ [][Next]_vars

----------------------------------------------------------------------------
(* Reading the history *)

Calls == 1..Len(calls)
LockPath(c) == LockFile(lock_file_directory, c.lock_object)
HasReturned(c) == c.raised = NoError
\* the lock path of call c is a regular file of filesystem fsys
Present(fsys, c) == IsFile(fsys, Resolve(LockPath(c)))
\* the text of the lock file of call c in fsys
Content(fsys, c) == fsys[Resolve(LockPath(c))].data
\* the present value of the dict object call i had as lock_data
CurrentValue(i) == IF calls[i].omitted THEN default_lock_data ELSE calls[i].lock_data

TypeOK ==
    /\ lock_file_directory \in Directories
    /\ DOMAIN default_lock_data \subseteq Keys
    /\ Len(calls) <= MaxCalls
    /\ \A i \in Calls :
          /\ calls[i].site \in FailureKinds \cup {Returned, Propagated}
          /\ DOMAIN calls[i].lock_data \subseteq Keys

----------------------------------------------------------------------------
(* Properties *)

\* the filesystem call i left behind
FsAfter(i) == IF i = Len(calls) THEN fs ELSE calls[i + 1].fs0

\* after differs from before at most by the lock directory having been made
OnlyDirectoryEnsured(before, after) ==
    /\ DOMAIN before \subseteq DOMAIN after
    /\ \A p \in DOMAIN before : after[p] = before[p]
    /\ \A p \in (DOMAIN after) \ (DOMAIN before) :
          p = Resolve(lock_file_directory) /\ after[p] = DirEntry

ComputedKeys == {"lock_file_location", "lock_file_status", "lock_action"}

C2_Original ==
    \A i \in Calls :
        LET c == calls[i] IN
        (c.lock_action = UNLOCK /\ c.ensure_lock_state /\ ~ Present(c.fs0, c))
        => /\ c.raised = LockFileNotPresentError
           /\ c.site = NotLocked
           /\ FsAfter(i) = c.fs0

\* C2 amended: such a call raises NotLocked before the removal step and
\* changes no lock path; the only change it can make to the filesystem is
\* creating the lock directory when that did not exist.
C2_UnlockRefusedWhenUnlocked ==
    \A i \in Calls :
        LET c == calls[i] IN
        (c.lock_action = UNLOCK /\ c.ensure_lock_state /\ ~ Present(c.fs0, c))
        => /\ c.raised = LockFileNotPresentError
           /\ c.site = NotLocked
           /\ c.removal = "none"
           /\ Files(FsAfter(i)) = Files(c.fs0)
           /\ OnlyDirectoryEnsured(c.fs0, FsAfter(i))

C2_Witness ==
    \E i \in Calls :
        /\ calls[i].lock_action = UNLOCK /\ calls[i].ensure_lock_state
        /\ ~ Present(calls[i].fs0, calls[i])
        /\ calls[i].fs0 # EmptyFs
        /\ calls[i].site = NotLocked

\* C3: a lock call that returns on an unlocked resource, followed directly by
\* an unlock call on the same resource, leaves the lock path absent and the
\* files of the filesystem, with their contents, as before the lock call.
C3_RoundTrip ==
    \A i \in Calls :
        (/\ i + 1 \in Calls
         /\ calls[i].lock_action = LOCK /\ HasReturned(calls[i])
         /\ ~ Present(calls[i].fs0, calls[i])
         /\ calls[i + 1].lock_action = UNLOCK
         /\ calls[i + 1].lock_object = calls[i].lock_object)
        => /\ ~ Present(FsAfter(i + 1), calls[i])
           /\ Files(FsAfter(i + 1)) = Files(calls[i].fs0)

C3_Witness ==
    \E i \in Calls :
        /\ i + 1 \in Calls
        /\ calls[i].lock_action = LOCK /\ HasReturned(calls[i])
        /\ ~ Present(calls[i].fs0, calls[i])
        /\ Files(calls[i].fs0) # EmptyFs
        /\ calls[i + 1].lock_action = UNLOCK
        /\ calls[i + 1].lock_object = calls[i].lock_object
        /\ HasReturned(calls[i + 1])

\* status calls i < j on one resource with no lock or unlock call between
SameStatusRun(i, j) ==
    /\ i < j
    /\ calls[i].lock_action = STATUS /\ calls[j].lock_action = STATUS
    /\ calls[i].lock_object = calls[j].lock_object
    /\ \A k \in i..j : calls[k].lock_action \notin {LOCK, UNLOCK}

\* C4 as stated: status calls never change the filesystem, whatever state
\* they start from, and consecutive ones return the same lock_file_status.
C4_Original ==
    /\ \A i \in Calls : calls[i].lock_action = STATUS => FsAfter(i) = calls[i].fs0
    /\ \A i \in Calls, j \in Calls :
          SameStatusRun(i, j) =>
              calls[i].lock_data["lock_file_status"] = calls[j].lock_data["lock_file_status"]

\* C4 amended: a status call returns and changes no file; the only change it
\* can make is creating the lock directory when that did not exist; status
\* calls on one resource with no lock or unlock between them return the same
\* lock_file_status.
C4_StatusIdempotent ==
    /\ \A i \in Calls :
          calls[i].lock_action = STATUS =>
              /\ HasReturned(calls[i])
              /\ Files(FsAfter(i)) = Files(calls[i].fs0)
              /\ OnlyDirectoryEnsured(calls[i].fs0, FsAfter(i))
    /\ \A i \in Calls, j \in Calls :
          SameStatusRun(i, j) =>
              calls[i].lock_data["lock_file_status"] = calls[j].lock_data["lock_file_status"]

C4_Witness ==
    \E i \in Calls, j \in Calls :
        /\ SameStatusRun(i, j)
        /\ HasReturned(calls[i]) /\ HasReturned(calls[j])
        /\ calls[i].fs0 = EmptyFs
        /\ FsAfter(i) # EmptyFs

\* C5: after a lock call with caller metadata M has returned, the lock file,
\* deserialized, holds every entry of M (under keys the call does not
\* compute) and lock_file_status = 'locked', lock_file_location = the lock
\* path, lock_action = 'lock'.
C5_MetadataFidelity ==
    \A i \in Calls :
        LET c == calls[i]
            loaded == YamlLoad(Content(FsAfter(i), c))
        IN  (c.lock_action = LOCK /\ ~ c.omitted /\ HasReturned(c))
            => /\ \A k \in (DOMAIN c.entry) \ ComputedKeys :
                     k \in DOMAIN loaded /\ loaded[k] = c.entry[k]
               /\ {"lock_file_location", "lock_file_status", "lock_action"}
                     \subseteq DOMAIN loaded
               /\ loaded["lock_file_status"] = <<"locked">>
               /\ loaded["lock_file_location"] = LockPath(c)
               /\ loaded["lock_action"] = LOCK

\* C6: two calls that fail in different ways (NotLocked, UnlockFailed,
\* UnlockVerificationFailed, LockCreationFailed, AlreadyLocked, InvalidAction)
\* raise different exception classes.
C6_FailuresDistinct ==
    \A i \in Calls, j \in Calls :
        (/\ calls[i].site \in FailureKinds /\ calls[j].site \in FailureKinds
         /\ calls[i].site # calls[j].site)
        => calls[i].raised # calls[j].raised

\* C7: a call that omits lock_data starts from an empty mapping; the map an
\* earlier such call returned keeps the value it was returned with; and the
\* lock file such a lock call writes holds nothing but the keys this call
\* computed.
C7_DefaultFresh ==
    /\ \A i \in Calls : calls[i].omitted => calls[i].entry = EmptyDict
    /\ \A i \in Calls :
          (calls[i].omitted /\ HasReturned(calls[i]))
              => CurrentValue(i) = calls[i].lock_data
    /\ \A i \in Calls :
          LET c == calls[i]
              loaded == YamlLoad(Content(FsAfter(i), c))
          IN  (c.omitted /\ c.lock_action = LOCK /\ HasReturned(c))
              => /\ DOMAIN loaded \subseteq ComputedKeys
                 /\ loaded["lock_file_status"] = <<"locked">>
                 /\ loaded["lock_file_location"] = LockPath(c)
                 /\ ("lock_action" \in DOMAIN loaded => loaded["lock_action"] = LOCK)

\* C8: an unlock call without ensure_lock_state on a resource whose lock path
\* does not exist raises the error of the removal step, LockFileNotPresentError
\* (UnlockFailed), as does every call whose removal step fails; the resource
\* has no lock path afterwards.
C8_UnlockNonexistent ==
    /\ \A i \in Calls :
          LET c == calls[i] IN
          (c.lock_action = UNLOCK /\ ~ c.ensure_lock_state /\ ~ Present(c.fs0, c))
          => /\ c.raised = LockFileNotPresentError
             /\ c.site = UnlockFailed
             /\ ~ Present(FsAfter(i), c)
    /\ \A i \in Calls :
          calls[i].removal = "failed"
          => calls[i].raised = LockFileNotPresentError /\ calls[i].site = UnlockFailed

C8_Witness ==
    \E i \in Calls :
        /\ calls[i].lock_action = UNLOCK /\ ~ calls[i].ensure_lock_state
        /\ ~ Present(calls[i].fs0, calls[i])
        /\ calls[i].removal = "failed"
        /\ calls[i].raised = LockFileNotPresentError

\* C9: a call whose action is none of 'status', 'lock', 'unlock' raises
\* LockActionError (InvalidAction); no file comes into existence and no file's
\* content changes, whether the resource was locked or not.
C9_InvalidAction ==
    \A i \in Calls :
        LET c == calls[i] IN
        c.lock_action \notin {STATUS, LOCK, UNLOCK}
        => /\ c.raised = LockActionError
           /\ c.site = InvalidAction
           /\ Files(FsAfter(i)) = Files(c.fs0)

C9_Witness ==
    \E i \in Calls, j \in Calls :
        /\ calls[i].lock_action \notin {STATUS, LOCK, UNLOCK}
        /\ calls[j].lock_action \notin {STATUS, LOCK, UNLOCK}
        /\ Present(calls[i].fs0, calls[i])
        /\ ~ Present(calls[j].fs0, calls[j])
        /\ calls[i].raised = LockActionError /\ calls[j].raised = LockActionError

----------------------------------------------------------------------------
(* Properties of the lock path and of the returned mapping *)

\* the path <directory>/<resourceName>.lock, resolved
InsideDirectory(c) ==
    Resolve(lock_file_directory \o <<"/">> \o c.lock_object \o <<".lock">>)

\* C11: for every directory string, with or without a trailing separator,
\* the lock path lock creates, status reads and unlock removes is
\* <directory>/<resourceName>.lock, a file inside the directory the call
\* ensured to exist.
C11_LockPathInsideDirectory ==
    \A i \in Calls :
        LET c == calls[i] IN
        /\ (c.lock_action = LOCK /\ HasReturned(c))
              => /\ IsFile(FsAfter(i), InsideDirectory(c))
                 /\ IsDir(FsAfter(i), Parent(InsideDirectory(c)))
                 /\ Parent(InsideDirectory(c)) = Resolve(lock_file_directory)
        /\ (c.lock_action = UNLOCK /\ HasReturned(c))
              => /\ IsFile(c.fs0, InsideDirectory(c))
                 /\ ~ IsFile(FsAfter(i), InsideDirectory(c))
        /\ (c.lock_action = STATUS /\ HasReturned(c))
              => (c.lock_data["lock_file_status"] = <<"locked">>
                     <=> IsFile(c.fs0, InsideDirectory(c)))

\* the values lock() computes for a call that returns
ComputedStatus(c) ==
    IF c.lock_action = LOCK THEN <<"locked">>
    ELSE IF c.lock_action = UNLOCK THEN <<"unlocked">>
    ELSE IF Present(c.fs0, c) THEN <<"locked">> ELSE <<"unlocked">>

ComputedLocation(c) ==
    IF ComputedStatus(c) = <<"locked">> THEN LockPath(c) ELSE None

\* C17: a call that returns returns the mapping it was given merged with the
\* computed keys, the computed values winning: lock_action is the action of
\* this call, lock_file_status and lock_file_location are the values this
\* call computed, and every other entry is returned as it was given.
C17_ResultMerged ==
    \A i \in Calls :
        LET c == calls[i] IN
        HasReturned(c)
        => /\ DOMAIN c.lock_data = (DOMAIN c.entry) \cup ComputedKeys
           /\ c.lock_data["lock_action"] = c.lock_action
           /\ c.lock_data["lock_file_status"] = ComputedStatus(c)
           /\ c.lock_data["lock_file_location"] = ComputedLocation(c)
           /\ \A k \in (DOMAIN c.entry) \ ComputedKeys : c.lock_data[k] = c.entry[k]

C17_Witness ==
    \E i \in Calls, j \in Calls :
        /\ HasReturned(calls[i]) /\ calls[i].lock_action = LOCK
        /\ calls[i].entry = Stale
        /\ calls[i].lock_data["lock_file_status"] = <<"locked">>
        /\ calls[i].lock_data["msg"] = <<"null">>
        /\ HasReturned(calls[j]) /\ calls[j].lock_action = UNLOCK
        /\ calls[j].entry = Stale
        /\ calls[j].lock_data["lock_action"] = UNLOCK

\* the metadata a call was given by its caller: none when lock_data is omitted
CallerMetadata(c) == IF c.omitted THEN EmptyDict ELSE c.entry

\* C19: a lock call without ensure_unlock_state on a locked resource returns,
\* and the lock file then holds exactly the merged metadata of this call:
\* the caller's metadata with lock_file_location and lock_file_status.
C19_RelockOverwrites ==
    \A i \in Calls :
        LET c == calls[i] IN
        (c.lock_action = LOCK /\ ~ c.ensure_unlock_state /\ Present(c.fs0, c))
        => /\ HasReturned(c)
           /\ Present(FsAfter(i), c)
           /\ YamlLoad(Content(FsAfter(i), c))
                 = Update(CallerMetadata(c), return_info(LockPath(c), <<"locked">>))

----------------------------------------------------------------------------
(* Unsanitised names: lock() takes any string as directory and as resource *)
(* name.  The caller here uses resource names with a leading separator and *)
(* a directory string that names the lock file an earlier invocation left. *)

NameObjects == { <<"a">>, <<"/", "a">> }
NameDirectories == { <<"d", "/">>, <<"d", "/", "b", ".lock">> }

InitNames ==
    /\ lock_file_directory \in NameDirectories
    /\ fs = LockedEach(EmptyFs, <<"d", "/">>, {<<"b">>})
    /\ default_lock_data = EmptyDict
    /\ calls = <<>>
    /\ procs = [p \in Procs |-> Idle]
    /\ last_writer = NoProcess

NamesStatus == \E o \in NameObjects, flag \in BOOLEAN : WithData(o, STATUS, flag, flag)
NamesLock == \E o \in NameObjects, eu \in BOOLEAN : WithData(o, LOCK, eu, FALSE)
NamesUnlock == \E o \in NameObjects, el \in BOOLEAN : WithData(o, UNLOCK, FALSE, el)
NamesOther ==
    \E o \in NameObjects, a \in Actions \ {STATUS, LOCK, UNLOCK} : WithData(o, a, FALSE, FALSE)

NextNames == NamesStatus \/ NamesLock \/ NamesUnlock \/ NamesOther

SpecNames == InitNames /\ [][NextNames]_vars

\* call k cannot, by the claim, disturb the lock call i made
Harmless(i, k) ==
    \/ calls[k].lock_action = STATUS
    \/ calls[k].site \in {AlreadyLocked, InvalidAction}
    \/ calls[k].lock_object # calls[i].lock_object

\* C13: once a lock call on a resource has returned, its lock path stays
\* present with unchanged content through status calls, calls that fail with
\* AlreadyLocked or InvalidAction, and lock or unlock calls on any other
\* resource name in the same directory.
C13_LockPersists ==
    \A i \in Calls, j \in Calls :
        (/\ i < j
         /\ calls[i].lock_action = LOCK /\ HasReturned(calls[i])
         /\ \A k \in (i + 1)..j : Harmless(i, k))
        => /\ Present(FsAfter(j), calls[i])
           /\ Content(FsAfter(j), calls[i]) = Content(FsAfter(i), calls[i])

\* C16: after any call the directory the caller passed exists, unless
\* creating it failed for another reason than its existing already, and then
\* the failure reached the caller before the filesystem was touched.
C16_DirectoryEnsured ==
    \A i \in Calls :
        \/ IsDir(FsAfter(i), Resolve(lock_file_directory))
        \/ /\ calls[i].site = Propagated
           /\ FsAfter(i) = calls[i].fs0

----------------------------------------------------------------------------
(* Unreadable lock files: an earlier invocation locked b, and the file has  *)
(* since lost its read permission (mode 0200), so open(lock_file, 'r')     *)
(* fails while the file can be appended to, rewritten and removed.         *)

\* fsys with the read permission of lock_file taken away
Unreadable(fsys, lock_file) ==
    [fsys EXCEPT ![Resolve(lock_file)].readable = FALSE]

InitUnreadable ==
    /\ lock_file_directory = <<"d", "/">>
    /\ fs = Unreadable(LockedEach(EmptyFs, lock_file_directory, {<<"b">>}),
                       LockFile(lock_file_directory, <<"b">>))
    /\ default_lock_data = EmptyDict
    /\ calls = <<>>
    /\ procs = [p \in Procs |-> Idle]
    /\ last_writer = NoProcess

SpecUnreadable == InitUnreadable /\ [][Next]_vars

\* the lock path of call c is present in fsys but cannot be opened for reading
PresentUnreadable(fsys, c) ==
    Present(fsys, c) /\ ~ fsys[Resolve(LockPath(c))].readable

\* C18: a lock path that is present but cannot be opened for reading is
\* treated as unlocked wherever is_locked is consulted: status returns
\* 'unlocked' with a null location, lock with ensure_unlock_state passes its
\* precondition (it does not raise LockFilePresentError), and unlock with
\* ensure_lock_state raises NotLocked without removing anything.
C18_UnreadableIsUnlocked ==
    \A i \in Calls :
        LET c == calls[i] IN
        PresentUnreadable(c.fs0, c)
        => /\ c.lock_action = STATUS
                 => /\ HasReturned(c)
                    /\ c.lock_data["lock_file_status"] = <<"unlocked">>
                    /\ c.lock_data["lock_file_location"] = None
           /\ (c.lock_action = LOCK /\ c.ensure_unlock_state)
                 => /\ c.raised # LockFilePresentError
                    /\ c.site # AlreadyLocked
           /\ (c.lock_action = UNLOCK /\ c.ensure_lock_state)
                 => /\ c.raised = LockFileNotPresentError
                    /\ c.site = NotLocked
                    /\ FsAfter(i) = c.fs0

C18_Witness ==
    \E i \in Calls, j \in Calls :
        /\ PresentUnreadable(calls[i].fs0, calls[i])
        /\ calls[i].lock_action = LOCK /\ calls[i].ensure_unlock_state
        /\ calls[i].site = LockCreationFailed
        /\ PresentUnreadable(calls[j].fs0, calls[j])
        /\ calls[j].lock_action = UNLOCK /\ calls[j].ensure_lock_state
        /\ calls[j].site = NotLocked

\* C20: a call that raises leaves the dict it was given as lock_data with
\* exactly the entries it had when the call was made.
C20_FailureKeepsMetadata ==
    \A i \in Calls :
        calls[i].raised # NoError => calls[i].lock_data = calls[i].entry

----------------------------------------------------------------------------
(* Concurrent processes.  Each process of Procs makes one call of lock() on *)
(* the resource a, with a dict of its own as lock_data, and the calls run   *)
(* interleaved at the grain of their filesystem operations: makedirs, the   *)
(* open of the precondition check, the open of create_lock_file, the open   *)
(* and dump of write_to_lock_file, os.remove, and the open of the re-check. *)

Resource == <<"a">>
RaceLockFile == LockFile(lock_file_directory, Resource)

\* the dict process p passes as lock_data
ProcMetadata(p) == [k \in {"msg"} |-> <<"held by ", p>>]

\* what a process finds at the lock path
PathState(fsys, lock_file) ==
    IF ~ IsFile(fsys, Resolve(lock_file)) THEN "absent"
    ELSE IF fsys[Resolve(lock_file)].readable THEN "present"
    ELSE "unreadable"

\* a lock re-check that accepts whatever it finds
lock_verify_skipped(fsys, lock_file) == NoError

\* the re-check of the lock branch, lines 227-233
lock_verify(fsys, lock_file) ==
    IF is_locked(fsys, lock_file) = TRUE THEN NoError ELSE LockFileNotPresentError

\* an unlock re-check that accepts whatever it finds
unlock_verify_skipped(fsys, lock_file) == NoError

\* the re-check of the unlock branch, lines 193-200
unlock_verify(fsys, lock_file) ==
    IF is_locked(fsys, lock_file) = FALSE THEN NoError ELSE LockFileNotPresentForRemoval

InitRace ==
    /\ lock_file_directory = <<"d", "/">>
    /\ fs \in { EmptyFs,
                LockedEach(EmptyFs, lock_file_directory, {Resource}),
                Unreadable(LockedEach(EmptyFs, lock_file_directory, {Resource}),
                           RaceLockFile) }
    /\ default_lock_data = EmptyDict
    /\ calls = <<>>
    /\ procs = [p \in Procs |-> Idle]
    /\ last_writer = NoProcess

\* process p takes a step that leaves it as r; every other process that is
\* inside its call has now had a step of another process interleaved
Step(p, r) ==
    procs' = [q \in Procs |->
                 IF q = p THEN r
                 ELSE IF procs[q].pc \in {"idle", "done"} THEN procs[q]
                 ELSE [procs[q] EXCEPT !.disturbed = TRUE]]

\* the call of p ends by raising
Raise(p, raised, site) ==
    [procs[p] EXCEPT !.pc = "done", !.raised = raised, !.site = site]

\* p calls lock(lock_file_directory, 'a', lock_data, lock_action, ...)
Begin(p) ==
    /\ procs[p].pc = "idle"
    /\ \E a \in {LOCK, UNLOCK}, flag \in BOOLEAN :
          procs' = [procs EXCEPT ![p] =
                       [Idle EXCEPT !.pc = "create_lock_dir", !.lock_action = a,
                                    !.ensure_unlock_state = (a = LOCK /\ flag),
                                    !.ensure_lock_state = (a = UNLOCK /\ flag),
                                    !.entry = ProcMetadata(p),
                                    !.lock_data = ProcMetadata(p)]]
    /\ UNCHANGED <<fs, last_writer, lock_file_directory, default_lock_data, calls>>

\* line 163
EnsureDir(p) ==
    /\ procs[p].pc = "create_lock_dir"
    /\ LET mk == create_lock_dir(fs, lock_file_directory)
       IN  /\ fs' = mk.fs
           /\ Step(p, IF mk.raised # NoError THEN Raise(p, mk.raised, Propagated)
                      ELSE [procs[p] EXCEPT !.pc = "precondition"])
    /\ UNCHANGED <<last_writer, lock_file_directory, default_lock_data, calls>>

\* lines 184-185 and 210-211: ensure_lock or ensure_unlock, when asked for
Precondition(p) ==
    /\ procs[p].pc = "precondition"
    /\ LET me == procs[p]
           pre == IF me.lock_action = LOCK /\ me.ensure_unlock_state
                  THEN ensure_unlock(fs, RaceLockFile)
                  ELSE IF me.lock_action = UNLOCK /\ me.ensure_lock_state
                  THEN ensure_lock(fs, RaceLockFile)
                  ELSE NoError
           seen == [me EXCEPT !.at_check = PathState(fs, RaceLockFile)]
       IN  Step(p, IF pre # NoError
                   THEN [seen EXCEPT !.pc = "done", !.raised = pre,
                                     !.site = IF me.lock_action = LOCK
                                              THEN AlreadyLocked ELSE NotLocked]
                   ELSE [seen EXCEPT !.pc = IF me.lock_action = LOCK
                                            THEN "create_lock_file"
                                            ELSE "remove_lock_file"])
    /\ UNCHANGED <<fs, last_writer, lock_file_directory, default_lock_data, calls>>

\* line 214
Create(p) ==
    /\ procs[p].pc = "create_lock_file"
    /\ LET cr == create_lock_file(fs, RaceLockFile)
       IN  /\ fs' = cr.fs
           /\ Step(p, IF cr.raised # NoError THEN Raise(p, cr.raised, Propagated)
                      ELSE [procs[p] EXCEPT !.pc = "write_to_lock_file"])
    /\ UNCHANGED <<last_writer, lock_file_directory, default_lock_data, calls>>

\* lines 217-224: the dict is updated, then dumped into the lock file
Write(p) ==
    /\ procs[p].pc = "write_to_lock_file"
    /\ LET merged == Update(procs[p].lock_data, return_info(RaceLockFile, <<"locked">>))
           wr == write_to_lock_file(fs, lock_file_directory, Resource, merged)
           me == [procs[p] EXCEPT !.lock_data = merged]
       IN  /\ fs' = wr.fs
           /\ last_writer' = IF wr.raised = NoError THEN p ELSE last_writer
           /\ Step(p, IF wr.raised # NoError
                      THEN [me EXCEPT !.pc = "done", !.raised = wr.raised,
                                      !.site = Propagated]
                      ELSE [me EXCEPT !.pc = "verify"])
    /\ UNCHANGED <<lock_file_directory, default_lock_data, calls>>

\* lines 226-233, then 240-241
VerifyLock(p) ==
    /\ procs[p].pc = "verify" /\ procs[p].lock_action = LOCK
    /\ LET v == lock_verify(fs, RaceLockFile)
           seen == [procs[p] EXCEPT !.at_verify = PathState(fs, RaceLockFile),
                                    !.pc = "done"]
       IN  Step(p, IF v # NoError
                   THEN [seen EXCEPT !.raised = v, !.site = LockCreationFailed]
                   ELSE [seen EXCEPT !.site = Returned,
                            !.lock_data = Update(@, [k \in {"lock_action"} |-> LOCK])])
    /\ UNCHANGED <<fs, last_writer, lock_file_directory, default_lock_data, calls>>

\* lines 187-190
Remove(p) ==
    /\ procs[p].pc = "remove_lock_file"
    /\ LET rm == remove_lock_file(fs, RaceLockFile)
       IN  /\ fs' = rm.fs
           /\ last_writer' = IF rm.raised = NoError THEN NoProcess ELSE last_writer
           /\ Step(p, IF rm.raised # NoError
                      THEN Raise(p, LockFileNotPresentError, UnlockFailed)
                      ELSE [procs[p] EXCEPT !.pc = "verify"])
    /\ UNCHANGED <<lock_file_directory, default_lock_data, calls>>

\* lines 192-207, then 240-241
VerifyUnlock(p) ==
    /\ procs[p].pc = "verify" /\ procs[p].lock_action = UNLOCK
    /\ LET v == unlock_verify(fs, RaceLockFile)
           seen == [procs[p] EXCEPT !.at_verify = PathState(fs, RaceLockFile),
                                    !.pc = "done"]
       IN  Step(p, IF v # NoError
                   THEN [seen EXCEPT !.raised = v, !.site = UnlockVerificationFailed]
                   ELSE [seen EXCEPT !.site = Returned,
                            !.lock_data = Update(Update(@, return_info(None, <<"unlocked">>)),
                                                 [k \in {"lock_action"} |-> UNLOCK])])
    /\ UNCHANGED <<fs, last_writer, lock_file_directory, default_lock_data, calls>>

NextRace ==
    \E p \in Procs :
        \/ Begin(p)
        \/ EnsureDir(p)
        \/ Precondition(p)
        \/ Create(p)
        \/ Write(p)
        \/ VerifyLock(p)
        \/ Remove(p)
        \/ VerifyUnlock(p)

SpecRace == InitRace /\ [][NextRace]_vars

----------------------------------------------------------------------------
(* Properties of concurrent calls *)

Done(p) == procs[p].pc = "done"
IsLockCall(p) == procs[p].pc # "idle" /\ procs[p].lock_action = LOCK
IsUnlockCall(p) == procs[p].pc # "idle" /\ procs[p].lock_action = UNLOCK

\* the unlock call of r has removed the lock file
HasRemoved(r) ==
    /\ IsUnlockCall(r)
    /\ \/ procs[r].pc = "verify"
       \/ Done(r) /\ procs[r].site \in {Returned, UnlockVerificationFailed}

\* what the lock call of p writes into the lock file
Merged(p) == Update(ProcMetadata(p), return_info(RaceLockFile, <<"locked">>))

\* C12: two lock calls with ensure_unlock_state on the same resource that
\* both found the lock path absent at their precondition check are not kept
\* apart: neither raises AlreadyLocked, and (no unlock call having removed
\* the file) both return lock_file_status = 'locked', the lock file holding
\* the merged metadata of the process that wrote last.
C12_NoMutualExclusion ==
    \A p \in Procs, q \in Procs :
        (/\ p # q
         /\ IsLockCall(p) /\ procs[p].ensure_unlock_state /\ procs[p].at_check = "absent"
         /\ IsLockCall(q) /\ procs[q].ensure_unlock_state /\ procs[q].at_check = "absent")
        => /\ procs[p].site # AlreadyLocked /\ procs[q].site # AlreadyLocked
           /\ (Done(p) /\ Done(q) /\ ~ \E r \in Procs : HasRemoved(r))
                 => /\ procs[p].site = Returned /\ procs[q].site = Returned
                    /\ procs[p].lock_data["lock_file_status"] = <<"locked">>
                    /\ procs[q].lock_data["lock_file_status"] = <<"locked">>
                    /\ last_writer \in Procs
                    /\ IsFile(fs, Resolve(RaceLockFile))
                    /\ YamlLoad(fs[Resolve(RaceLockFile)].data) = Merged(last_writer)

C12_Witness ==
    \E p \in Procs, q \in Procs :
        /\ p # q
        /\ IsLockCall(p) /\ procs[p].ensure_unlock_state /\ procs[p].at_check = "absent"
        /\ IsLockCall(q) /\ procs[q].ensure_unlock_state /\ procs[q].at_check = "absent"
        /\ Done(p) /\ procs[p].site = Returned
        /\ Done(q) /\ procs[q].site = Returned
        /\ last_writer = q
        /\ YamlLoad(fs[Resolve(RaceLockFile)].data) = Merged(q)
        /\ YamlLoad(fs[Resolve(RaceLockFile)].data) # Merged(p)

\* C14 as stated: a lock call returns only if the lock path was present at
\* its re-check, and it raises LockCreationFailed only when a step of another
\* process was interleaved with it, never in a sequential execution.
C14_Original ==
    \A p \in Procs :
        (IsLockCall(p) /\ Done(p))
        => /\ procs[p].site = Returned => procs[p].at_verify = "present"
           /\ procs[p].site = LockCreationFailed
                 => /\ procs[p].at_verify = "absent"
                    /\ procs[p].disturbed

\* C14 amended: a lock call that reaches its re-check returns exactly when
\* the lock path could be opened there and raises LockCreationFailed
\* (LockFileNotPresentError) otherwise, as when an unlock of another process
\* removed the path after the write; in a sequential execution
\* LockCreationFailed is raised only for a lock path that is present but
\* cannot be opened for reading.
C14_LockReturnsOnlyIfPresent ==
    \A p \in Procs :
        (IsLockCall(p) /\ Done(p))
        => /\ procs[p].site = Returned
                 => /\ procs[p].at_verify = "present"
                    /\ procs[p].lock_data["lock_file_status"] = <<"locked">>
           /\ procs[p].at_verify \in {"absent", "unreadable"}
                 => /\ procs[p].site = LockCreationFailed
                    /\ procs[p].raised = LockFileNotPresentError
           /\ procs[p].site = LockCreationFailed
                 => /\ procs[p].at_verify \in {"absent", "unreadable"}
                    /\ ~ procs[p].disturbed => procs[p].at_verify = "unreadable"

C14_Witness ==
    \E p \in Procs, q \in Procs :
        /\ IsLockCall(p) /\ Done(p)
        /\ procs[p].site = LockCreationFailed
        /\ procs[p].at_verify = "absent"
        /\ HasRemoved(q)

\* C15: an unlock call returns only if the lock path was absent at the
\* re-check after its removal, and then with lock_file_location = None,
\* lock_file_status = 'unlocked' and lock_action = 'unlock' merged into the
\* caller's metadata; if the path is present at that re-check the call raises
\* LockFileNotPresentForRemoval (UnlockVerificationFailed).
C15_UnlockPostcondition ==
    \A p \in Procs :
        (IsUnlockCall(p) /\ Done(p))
        => /\ procs[p].site = Returned
                 => /\ procs[p].at_verify = "absent"
                    /\ procs[p].lock_data =
                          Update(procs[p].entry,
                                 [k \in ComputedKeys |->
                                     IF k = "lock_file_location" THEN None
                                     ELSE IF k = "lock_file_status" THEN <<"unlocked">>
                                     ELSE UNLOCK])
           /\ procs[p].at_verify \in {"present", "unreadable"}
                 => /\ procs[p].site = UnlockVerificationFailed
                    /\ procs[p].raised = LockFileNotPresentForRemoval
                    /\ procs[p].at_verify = "present"

C15_Witness ==
    \E p \in Procs, q \in Procs :
        /\ IsUnlockCall(p) /\ Done(p)
        /\ procs[p].site = UnlockVerificationFailed
        /\ procs[p].at_verify = "present"
        /\ IsLockCall(q) /\ last_writer = q

====
